---- MODULE Spec2Model ----
(***************************************************************************)
(* House Price Prediction API (main.py).                                   *)
(*                                                                         *)
(* The module loads two pickled artifacts (a regression model and a        *)
(* feature scaler) while it is imported, then serves GET / (a static page) *)
(* and POST /predict (schema validation, then the pipeline: assemble the   *)
(* row, check its width against the scaler, transform, predict, multiply   *)
(* by 100000, build the response; any exception becomes a 500).            *)
(*                                                                         *)
(* Floats are modelled by integers.  The artifacts are opaque pickles: the *)
(* scaler is taken to be a standardising scaler (x - mean_) and the model  *)
(* a linear regression (intercept_ + coef_ . x), as the application says   *)
(* of itself; either may have been fitted on another number of features    *)
(* and either may raise.                                                   *)
(*                                                                         *)
(* predict_house_price is a coroutine without an await, so the event loop  *)
(* runs its body without suspension.  The model splits it into one action  *)
(* per statement, which allows every interleaving of the statements of     *)
(* different requests: a superset of the schedules of the program.         *)
(***************************************************************************)
EXTENDS Integers, Sequences, FiniteSets, TLC

\* Number of requests that arrive in one behaviour.
MaxReq == 2

\* The factor of line 143.
Multiplier == 100000

\* The five fields of HouseFeatures, in declaration order.
Fields == <<"MedInc", "HouseAge", "AveRooms", "AveBedrms", "AvePop">>

FieldSet == {Fields[i] : i \in 1..Len(Fields)}

------------------------------------------------------------------------------
(* What may be found at SCALER_FILE and MODEL_FILE.                        *)

Missing == [state |-> "missing"]

Unreadable == [state |-> "unreadable"]

Ones(n) == [i \in 1..n |-> 1]

\* A pickled scaler: the attribute n_features_in_ (absent from scalers
\* pickled by old library versions), the fitted means, and the values its
\* input validation refuses.
ScalerObj(hasN, n, rej) ==
    [state |-> "ok", has_n_features_in_ |-> hasN, n_features_in_ |-> n,
     mean_ |-> Ones(n), rejects |-> rej]

ScalerPickles ==
    { ScalerObj(TRUE, 5, {}), ScalerObj(TRUE, 5, {2}),
      ScalerObj(TRUE, 4, {}), ScalerObj(TRUE, 6, {}),
      ScalerObj(FALSE, 5, {}) }

\* A pickled linear regression: one coefficient per fitted feature.
ModelObj(n) ==
    [state |-> "ok", coef_ |-> [i \in 1..n |-> i], intercept_ |-> 1]

ModelPickles == { ModelObj(5), ModelObj(8) }

ScalerFiles == ScalerPickles \cup {Missing, Unreadable}

ModelFiles == ModelPickles \cup {Missing, Unreadable}

\* A name that is not bound yet.
Unbound == [state |-> "unbound"]

------------------------------------------------------------------------------
VARIABLES
    disk,      \* the two files beside main.py
    pc,        \* where the process is: loading, serving or dead
    fatal,     \* the exception that ended the import, "" if none
    model,     \* module-level name model
    scaler,    \* module-level name scaler
    reqs       \* the requests received so far, in order of arrival

vars == <<disk, pc, fatal, model, scaler, reqs>>

Init ==
    /\ disk \in [MODEL_FILE : ModelFiles, SCALER_FILE : ScalerFiles]
    /\ pc = "load_model"
    /\ fatal = ""
    /\ model = Unbound
    /\ scaler = Unbound
    /\ reqs = <<>>

------------------------------------------------------------------------------
(* Import of the module: lines 13-20.                                      *)

\* What open() followed by pickle.load() does with a file: the exception
\* type it raises, "" when it returns the object.
LoadError(file) ==
    CASE file.state = "missing"    -> "FileNotFoundError"
      [] file.state = "unreadable" -> "UnpicklingError"
      [] OTHER                     -> ""

\* The try/except around the loads: FileNotFoundError is turned into a
\* RuntimeError, anything else propagates; both end the import.
StartupFailure(err) ==
    IF err = "FileNotFoundError" THEN "RuntimeError" ELSE err

\* Variant: the except clause swallows the error and the import goes on.
AfterLoadSwallow(err, next) == next

\* Where the import goes after a load: on to the next statement, or out of
\* the module with the exception (the import, and so the process, ends).
AfterLoad(err, next) == IF err = "" THEN next ELSE "dead"

\* Lines 14-15.
LoadModel ==
    /\ pc = "load_model"
    /\ LET err == LoadError(disk.MODEL_FILE)
       IN  /\ model' = IF err = "" THEN disk.MODEL_FILE ELSE model
           /\ pc' = AfterLoad(err, "load_scaler")
           /\ fatal' = StartupFailure(err)
    /\ UNCHANGED <<disk, scaler, reqs>>

\* Lines 16-17.
LoadScaler ==
    /\ pc = "load_scaler"
    /\ LET err == LoadError(disk.SCALER_FILE)
       IN  /\ scaler' = IF err = "" THEN disk.SCALER_FILE ELSE scaler
           /\ pc' = AfterLoad(err, "create_app")
           /\ fatal' = StartupFailure(err)
    /\ UNCHANGED <<disk, model, reqs>>

\* Lines 23-27 and 154-156: the app is created and the server listens.
Serve ==
    /\ pc = "create_app"
    /\ pc' = "serving"
    /\ UNCHANGED <<disk, fatal, model, scaler, reqs>>

------------------------------------------------------------------------------
(* Request bodies.  A JSON object is a function from its keys to values.   *)

JNum(n) == [type |-> "number", v |-> n]

JStr(s) == [type |-> "string", v |-> s]

\* Rows of numbers: all ones, or a single 2 in the first or last column.
Rows == { [i \in 1..Len(Fields) |-> IF i = k THEN 2 ELSE 1] :
          k \in {0, 1, Len(Fields)} }

BodyOf(row) ==
    [f \in FieldSet |-> JNum(row[CHOOSE i \in 1..Len(Fields) : Fields[i] = f])]

NumericBodies == { BodyOf(row) : row \in Rows }

BaseBody == BodyOf(Ones(Len(Fields)))

\* One field left out, or one field carrying a string that is no number.
DefectiveBodies ==
    { [g \in FieldSet \ {f} |-> BaseBody[g]] : f \in FieldSet }
      \cup { [BaseBody EXCEPT ![f] = JStr("abc")] : f \in FieldSet }

Bodies == NumericBodies \cup DefectiveBodies

------------------------------------------------------------------------------
(* Schema validation of the body against HouseFeatures: lines 31-36, done  *)
(* by the framework before predict_house_price is called (line 131).       *)

\* Variant: presence is checked, the type of the value is not.
FieldErrorNoType(b, f) == IF f \notin DOMAIN b THEN "missing" ELSE ""

FieldError(b, f) ==
    CASE f \notin DOMAIN b        -> "missing"
      [] b[f].type # "number"     -> "float_parsing"
      [] OTHER                    -> ""

\* The fields that fail, in declaration order, each with its error type.
ValidationErrors(b) ==
    LET bad == SelectSeq(Fields, LAMBDA f : FieldError(b, f) # "")
    IN  [k \in 1..Len(bad) |->
            [loc |-> <<"body", bad[k]>>, type |-> FieldError(b, bad[k])]]

\* The HouseFeatures instance of a body that validates.
Features(b) == [f \in FieldSet |-> b[f].v]

\* 422 Unprocessable Entity, as the framework answers a body that fails.
Unprocessable(errs) == [status |-> 422, detail |-> errs]

------------------------------------------------------------------------------
(* The pipeline of predict_house_price, statement by statement.            *)

\* Variant: the transform is called before the width check.
StatementsTransformFirst ==
    <<"assemble", "transform", "check", "predict", "rescale", "build">>

\* The statements of the try block, lines 133-148, in program order.
Statements ==
    <<"assemble", "check", "transform", "predict", "rescale", "build">>

\* The statement that follows `step`; "done" after the return.
After(step) ==
    LET k == CHOOSE j \in 1..Len(Statements) : Statements[j] = step
    IN  IF k = Len(Statements) THEN "done" ELSE Statements[k + 1]

NoExc == [type |-> "", msg |-> ""]

Raise(type, msg) == [exc |-> [type |-> type, msg |-> msg], val |-> <<>>]

Return(v) == [exc |-> NoExc, val |-> v]

\* Lines 133-136: np.array([[MedInc, HouseAge, AveRooms, AveBedrms, AvePop]]).
FeatureRow(features) ==
    << <<features.MedInc, features.HouseAge, features.AveRooms,
         features.AveBedrms, features.AvePop>> >>

\* input_data.shape[1]
Width(X) == Len(X[1])

\* Variant: the width check is left out.
WidthCheckOff(sc, X) == Return(TRUE)

\* Lines 138-139: reading scaler.n_features_in_ raises AttributeError when
\* the attribute is absent; a differing width raises ValueError.
WidthCheck(sc, X) ==
    IF ~sc.has_n_features_in_
    THEN Raise("AttributeError",
               "'StandardScaler' object has no attribute 'n_features_in_'")
    ELSE IF Width(X) # sc.n_features_in_
    THEN Raise("ValueError",
               "Scaler expects " \o ToString(sc.n_features_in_)
                 \o " features, got " \o ToString(Width(X)))
    ELSE Return(TRUE)

\* Line 141: scaler.transform(input_data).  The scaler validates its input
\* (width, refused values) and then centres every column.
ScalerTransform(sc, X) ==
    IF Width(X) # Len(sc.mean_)
    THEN Raise("ValueError",
               "X has " \o ToString(Width(X))
                 \o " features, but StandardScaler is expecting "
                 \o ToString(Len(sc.mean_)) \o " features as input.")
    ELSE IF \E i \in 1..Width(X) : X[1][i] \in sc.rejects
    THEN Raise("ValueError", "Input X contains a value the scaler refuses.")
    ELSE Return(<< [i \in 1..Width(X) |-> X[1][i] - sc.mean_[i]] >>)

RECURSIVE Dot(_, _, _)
Dot(a, b, n) == IF n = 0 THEN 0 ELSE a[n] * b[n] + Dot(a, b, n - 1)

\* Variant: the prediction drifts with the number of requests seen.
ModelPredictStateful(m, X) ==
    IF Width(X) # Len(m.coef_)
    THEN Raise("ValueError", "X has the wrong number of features.")
    ELSE Return(<< m.intercept_ + Dot(m.coef_, X[1], Width(X)) + Len(reqs) >>)

\* Line 142: model.predict(input_scaled), one output per row.
ModelPredict(m, X) ==
    IF Width(X) # Len(m.coef_)
    THEN Raise("ValueError",
               "X has " \o ToString(Width(X))
                 \o " features, but LinearRegression is expecting "
                 \o ToString(Len(m.coef_)) \o " features as input.")
    ELSE Return(<< m.intercept_ + Dot(m.coef_, X[1], Width(X)) >>)

\* Variant: fit_transform() is called, which refits the scaler on the row.
ScalerRefitted(sc, X) == [sc EXCEPT !.mean_ = X[1]]

\* transform() reads the fitted attributes and leaves the scaler as it is.
ScalerAfterTransform(sc, X) == sc

\* Variant: a zero is lost from the factor.
RescaleBy10000(prediction) == prediction * 10000

\* Line 143.
Rescale(prediction) == prediction * Multiplier

\* Variant: the echo is built from the scaled row.
FeaturesDictScaled(r) ==
    [f \in FieldSet |->
        r.locals.input_scaled[1][CHOOSE i \in 1..Len(Fields) : Fields[i] = f]]

\* Line 147: features.dict().
FeaturesDict(r) == [f \in FieldSet |-> r.features[f]]

\* Lines 145-148: the PredictionResponse, sent with status 200.
Success(price, echo) ==
    [status |-> 200, predicted_price |-> price, input_features |-> echo]

\* Variant: except ValueError; anything else escapes to the framework,
\* which answers a bare 500.
CatchValueErrorOnly(e) ==
    IF e.type = "ValueError"
    THEN [status |-> 500, detail |-> "Prediction error: " \o e.msg]
    ELSE [status |-> 500, detail |-> "Internal Server Error"]

\* Lines 149-150: except Exception -> HTTPException(500, ...).
Catch(e) == [status |-> 500, detail |-> "Prediction error: " \o e.msg]

\* Lines 44-126: the page, by the names of the inputs of its form.
Page == [status |-> 200, media_type |-> "text/html", inputs |-> Fields]

NoResponse == [status |-> 0]

------------------------------------------------------------------------------
(* Requests.                                                               *)

Request(method, body, at, features, resp) ==
    [method |-> method, body |-> body, pc |-> at, features |-> features,
     locals |-> <<>>, exc |-> NoExc, trace |-> <<>>, resp |-> resp]

\* GET /: frontend() returns the page.
Get ==
    /\ pc = "serving"
    /\ Len(reqs) < MaxReq
    /\ reqs' = Append(reqs, Request("GET", <<>>, "done", <<>>, Page))
    /\ UNCHANGED <<disk, pc, fatal, model, scaler>>

\* POST /predict arrives: the framework validates the body and either
\* answers 422 or calls predict_house_price with the HouseFeatures.
Post(b) ==
    /\ pc = "serving"
    /\ Len(reqs) < MaxReq
    /\ reqs' = Append(reqs,
                 IF ValidationErrors(b) # <<>>
                 THEN Request("POST", b, "done", <<>>,
                              Unprocessable(ValidationErrors(b)))
                 ELSE Request("POST", b, Statements[1], Features(b),
                              NoResponse))
    /\ UNCHANGED <<disk, pc, fatal, model, scaler>>

\* The request leaves the try block through the except clause.
Failed(r, step, e) ==
    [r EXCEPT !.pc = "done", !.exc = e, !.trace = Append(@, step),
              !.resp = Catch(e)]

\* The request goes on to the next statement with more locals bound.
Stepped(r, step, locals) ==
    [r EXCEPT !.pc = After(step), !.trace = Append(@, step),
              !.locals = locals]

\* Variant: input_data is a module-level name, so a statement reads the row
\* of whichever request assembled last.
InputDataShared(i) ==
    LET bound == {j \in 1..Len(reqs) : "input_data" \in DOMAIN reqs[j].locals}
        last == CHOOSE j \in bound : \A k \in bound : k <= j
    IN  reqs[last].locals.input_data

\* The local input_data as line 138 and line 141 read it.
InputData(i) == reqs[i].locals.input_data

Assemble(i) ==
    /\ reqs[i].pc = "assemble"
    /\ reqs' = [reqs EXCEPT ![i] =
                  Stepped(@, "assemble",
                          [input_data |-> FeatureRow(@.features)])]
    /\ UNCHANGED <<disk, pc, fatal, model, scaler>>

Check(i) ==
    /\ reqs[i].pc = "check"
    /\ LET res == WidthCheck(scaler, InputData(i))
       IN  reqs' = [reqs EXCEPT ![i] =
                      IF res.exc # NoExc
                      THEN Failed(@, "check", res.exc)
                      ELSE Stepped(@, "check", @.locals)]
    /\ UNCHANGED <<disk, pc, fatal, model, scaler>>

Transform(i) ==
    /\ reqs[i].pc = "transform"
    /\ LET res == ScalerTransform(scaler, InputData(i))
       IN  reqs' = [reqs EXCEPT ![i] =
                      IF res.exc # NoExc
                      THEN Failed(@, "transform", res.exc)
                      ELSE Stepped(@, "transform",
                                   [input_data |-> @.locals.input_data,
                                    input_scaled |-> res.val])]
    /\ scaler' = ScalerAfterTransform(scaler, InputData(i))
    /\ UNCHANGED <<disk, pc, fatal, model>>

Predict(i) ==
    /\ reqs[i].pc = "predict"
    /\ LET res == ModelPredict(model, reqs[i].locals.input_scaled)
       IN  reqs' = [reqs EXCEPT ![i] =
                      IF res.exc # NoExc
                      THEN Failed(@, "predict", res.exc)
                      ELSE Stepped(@, "predict",
                                   [input_data |-> @.locals.input_data,
                                    input_scaled |-> @.locals.input_scaled,
                                    prediction |-> res.val[1]])]
    /\ UNCHANGED <<disk, pc, fatal, model, scaler>>

Scale(i) ==
    /\ reqs[i].pc = "rescale"
    /\ reqs' = [reqs EXCEPT ![i] =
                  Stepped(@, "rescale",
                          [input_data |-> @.locals.input_data,
                           input_scaled |-> @.locals.input_scaled,
                           prediction |-> @.locals.prediction,
                           predicted_price |-> Rescale(@.locals.prediction)])]
    /\ UNCHANGED <<disk, pc, fatal, model, scaler>>

Build(i) ==
    /\ reqs[i].pc = "build"
    /\ reqs' = [reqs EXCEPT ![i] =
                  [Stepped(@, "build", @.locals) EXCEPT
                     !.resp = Success(reqs[i].locals.predicted_price,
                                      FeaturesDict(reqs[i]))]]
    /\ UNCHANGED <<disk, pc, fatal, model, scaler>>

Next ==
    \/ LoadModel
    \/ LoadScaler
    \/ Serve
    \/ Get
    \/ \E b \in Bodies : Post(b)
    \/ \E i \in 1..Len(reqs) : Assemble(i)
    \/ \E i \in 1..Len(reqs) : Check(i)
    \/ \E i \in 1..Len(reqs) : Transform(i)
    \/ \E i \in 1..Len(reqs) : Predict(i)
    \/ \E i \in 1..Len(reqs) : Scale(i)
    \/ \E i \in 1..Len(reqs) : Build(i)

Spec == Init /\ [][Next]_vars
------------------------------------------------------------------------------
(* What one request gets when it is handled alone: the composition of the  *)
(* statements on the body and the loaded artifacts.                        *)

PostValid(r) == r.method = "POST" /\ ValidationErrors(r.body) = <<>>

Done(r) == r.pc = "done"

\* The first exception the pipeline raises on body b, NoExc if none.
PipelineExc(b) ==
    LET X == FeatureRow(Features(b))
        c == WidthCheck(scaler, X)
        t == ScalerTransform(scaler, X)
    IN  IF c.exc # NoExc THEN c.exc
        ELSE IF t.exc # NoExc THEN t.exc
        ELSE ModelPredict(model, t.val).exc

\* model.predict(scaler.transform(row))[0]
PipelineOutput(b) ==
    ModelPredict(model, ScalerTransform(scaler, FeatureRow(Features(b))).val).val[1]

Alone(method, b) ==
    IF method = "GET" THEN Page
    ELSE IF ValidationErrors(b) # <<>> THEN Unprocessable(ValidationErrors(b))
    ELSE IF PipelineExc(b) # NoExc THEN Catch(PipelineExc(b))
    ELSE Success(PipelineOutput(b) * Multiplier, [f \in FieldSet |-> b[f].v])

IsPrefix(s, t) == Len(s) <= Len(t) /\ SubSeq(t, 1, Len(s)) = s

Contains(s, sub) ==
    \E k \in 1..(Len(s) - Len(sub) + 1) : SubSeq(s, k, k + Len(sub) - 1) = sub

Occurrences(tr, step) == Cardinality({k \in 1..Len(tr) : tr[k] = step})

Requests == 1..Len(reqs)

------------------------------------------------------------------------------
C3_WidthMismatch500 ==
    (pc = "serving" /\ scaler.has_n_features_in_ /\ scaler.n_features_in_ # 5) =>
        \A i \in Requests :
            PostValid(reqs[i]) =>
                /\ reqs[i].resp.status # 200
                /\ Done(reqs[i]) =>
                     /\ reqs[i].resp.status = 500
                     /\ Contains(reqs[i].resp.detail, "Prediction error")
                     /\ reqs[i].resp.detail =
                          "Prediction error: Scaler expects "
                            \o ToString(scaler.n_features_in_)
                            \o " features, got 5"

C3_Witness ==
    \E i \in Requests :
        /\ scaler.n_features_in_ = 4
        /\ PostValid(reqs[i]) /\ Done(reqs[i])
        /\ reqs[i].resp.detail = "Prediction error: Scaler expects 4 features, got 5"

\* C4: an exception raised by any statement of the pipeline is answered 500
\* with detail "Prediction error: " + str(exception); a schema-valid POST
\* gets no status other than 200 or 500, and 200 only without an exception.
C4_CatchAll ==
    \A i \in Requests :
        PostValid(reqs[i]) =>
            /\ reqs[i].exc # NoExc =>
                 /\ Done(reqs[i])
                 /\ reqs[i].exc = PipelineExc(reqs[i].body)
                 /\ reqs[i].resp =
                      [status |-> 500,
                       detail |-> "Prediction error: " \o reqs[i].exc.msg]
            /\ Done(reqs[i]) =>
                 /\ reqs[i].resp.status \in {200, 500}
                 /\ reqs[i].resp.status = 200 <=> PipelineExc(reqs[i].body) = NoExc

\* One request refused by the scaler's transform and answered 500, another
\* answered 200 by the same process.
C4_Witness ==
    \E i, j \in Requests :
        /\ Done(reqs[i]) /\ reqs[i].exc.type = "ValueError"
        /\ reqs[i].trace = <<"assemble", "check", "transform">>
        /\ reqs[i].resp.detail =
              "Prediction error: Input X contains a value the scaler refuses."
        /\ Done(reqs[j]) /\ reqs[j].method = "POST"
        /\ reqs[j].resp.status = 200

\* C5: if either artifact file is missing or unreadable the import ends in a
\* fatal error and no request is ever served; requests are served only with
\* both artifacts loaded from the files.
C5_NoTrafficWithoutArtifacts ==
    /\ (disk.MODEL_FILE.state # "ok" \/ disk.SCALER_FILE.state # "ok") =>
          /\ pc \in {"load_model", "load_scaler", "dead"}
          /\ reqs = <<>>
    /\ (pc = "serving" \/ reqs # <<>>) =>
          /\ model = disk.MODEL_FILE /\ model.state = "ok"
          /\ scaler = disk.SCALER_FILE /\ scaler.state = "ok"
    /\ pc = "dead" <=> fatal # ""

C5_Witness ==
    /\ pc = "dead"
    /\ fatal = "RuntimeError"
    /\ disk.MODEL_FILE.state = "ok"
    /\ disk.SCALER_FILE.state = "missing"

C7_NoInterference ==
    \A i \in Requests :
        /\ Done(reqs[i]) => reqs[i].resp = Alone(reqs[i].method, reqs[i].body)
        /\ "input_data" \in DOMAIN reqs[i].locals =>
              reqs[i].locals.input_data = FeatureRow(Features(reqs[i].body))
        /\ "input_scaled" \in DOMAIN reqs[i].locals =>
              reqs[i].locals.input_scaled =
                 ScalerTransform(scaler, FeatureRow(Features(reqs[i].body))).val

\* Two requests with different rows were inside the pipeline at once, the
\* later one overtook the earlier, and both are answered.
C7_Witness ==
    \E i, j \in Requests :
        /\ i < j
        /\ reqs[i].pc = "predict" /\ reqs[j].pc = "done"
        /\ reqs[i].body # reqs[j].body
        /\ reqs[j].resp.status = 200

\* C8: once serving, no step changes the loaded artifacts, the files or the
\* process state, whatever the outcome of the request it belongs to.
C8_RequestsLeaveProcessState ==
    [][pc = "serving" =>
         /\ pc' = "serving"
         /\ scaler' = scaler
         /\ model' = model
         /\ disk' = disk
         /\ fatal' = fatal]_vars

\* A 500 from a width mismatch, and the next request served after it.
C8_Witness ==
    \E i, j \in Requests :
        /\ i < j
        /\ pc = "serving"
        /\ Done(reqs[i]) /\ reqs[i].resp.status = 500
        /\ reqs[i].exc.msg = "Scaler expects 6 features, got 5"
        /\ Done(reqs[j]) /\ reqs[j].resp.status = 422
        /\ scaler = disk.SCALER_FILE

\* C9: a 200 of POST /predict echoes exactly the five submitted fields with
\* the values of the request, unscaled.
C9_EchoesInput ==
    \A i \in Requests :
        reqs[i].method = "POST" /\ reqs[i].resp.status = 200 =>
            /\ DOMAIN reqs[i].resp.input_features =
                 {"MedInc", "HouseAge", "AveRooms", "AveBedrms", "AvePop"}
            /\ \A f \in DOMAIN reqs[i].resp.input_features :
                 reqs[i].resp.input_features[f] = reqs[i].body[f].v

C9_Witness ==
    \E i \in Requests :
        /\ reqs[i].method = "POST" /\ reqs[i].resp.status = 200
        /\ reqs[i].resp.input_features["MedInc"] = 2
        /\ reqs[i].locals.input_scaled[1][1] = 1

\* C10: the statements of one request run in the order assemble, width
\* check, transform, predict, rescale, build; the row is in field order; a
\* failed width check means no transform and no predict; a 200 means
\* transform and predict each ran once, in that order.
C10_PipelineOrder ==
    \A i \in Requests :
        PostValid(reqs[i]) =>
            /\ IsPrefix(reqs[i].trace,
                        <<"assemble", "check", "transform", "predict",
                          "rescale", "build">>)
            /\ "input_data" \in DOMAIN reqs[i].locals =>
                  reqs[i].locals.input_data[1] =
                     << reqs[i].body["MedInc"].v, reqs[i].body["HouseAge"].v,
                        reqs[i].body["AveRooms"].v, reqs[i].body["AveBedrms"].v,
                        reqs[i].body["AvePop"].v >>
            /\ (scaler.has_n_features_in_ /\ scaler.n_features_in_ # 5) =>
                  /\ Occurrences(reqs[i].trace, "transform") = 0
                  /\ Occurrences(reqs[i].trace, "predict") = 0
            /\ reqs[i].resp.status = 200 =>
                  /\ Occurrences(reqs[i].trace, "transform") = 1
                  /\ Occurrences(reqs[i].trace, "predict") = 1
                  /\ \E k, l \in 1..Len(reqs[i].trace) :
                        /\ k < l
                        /\ reqs[i].trace[k] = "transform"
                        /\ reqs[i].trace[l] = "predict"

C10_Witness ==
    \E i, j \in Requests :
        /\ reqs[i].resp.status = 200
        /\ reqs[i].trace = <<"assemble", "check", "transform", "predict",
                             "rescale", "build">>
        /\ reqs[i].locals.input_data[1] = <<1, 1, 1, 1, 2>>
        /\ PostValid(reqs[j]) /\ Done(reqs[j]) /\ i # j

====
